---- MODULE Spec2Model ----
(***************************************************************************)
(* A model of sttp (src/sttp.py): the state transition table parser        *)
(* STTP._parse, the lazily cached properties _stt, _json and _dot, and the *)
(* accessors dictify, jsonify, dotify and visualize.                       *)
(*                                                                         *)
(* A Python str is the sequence of its Unicode code points, so that        *)
(* slicing (trigger[:2], trigger[2:], trigger[0]), int(), the formatting   *)
(* of an integer and the escapes of json.dumps are computed character by   *)
(* character; the text of a literal is given in a comment beside it.       *)
(* A Python int is unbounded: a sign and the decimal digits of the         *)
(* magnitude.  A csv file is the sequence of rows csv.reader yields; a row *)
(* is a sequence of cells.  A Python Optional is a sequence of length 0    *)
(* (None) or 1 (a value).                                                  *)
(***************************************************************************)
EXTENDS Integers, Sequences, FiniteSets, TLC

VARIABLES file, stt, json, dot, out, computed, ncalls

vars == <<file, stt, json, dot, out, computed, ncalls>>

(***************************************************************************)
(* Bounds of the model.                                                    *)
(***************************************************************************)
MaxDestLen == 2
MaxTriggerLen == 3
MaxRows == 3
MaxLifeRows == 2
MaxCalls == 3

(***************************************************************************)
(* Python values.                                                          *)
(***************************************************************************)
None == <<>>
Some(v) == <<v>>

\* truthiness of a str: "not s" is true exactly of the empty string
Truthy(s) == Len(s) > 0

\* s[:n]
Take(s, n) == SubSeq(s, 1, IF n < Len(s) THEN n ELSE Len(s))

\* s[n:]
Drop(s, n) == SubSeq(s, n + 1, Len(s))

Returned(v) == [status |-> "ok", value |-> v]
Raised(e) == [status |-> "raised", value |-> e]

(***************************************************************************)
(* Class constants of STTP.                                                *)
(***************************************************************************)
SOURCE_HEADER == <<83, 79, 85, 82, 67, 69>> (* "SOURCE" *)
DEST_HEADER == <<68, 69, 83, 84>> (* "DEST" *)
TRIGGER_HEADER == <<84, 82, 73, 71, 71, 69, 82>> (* "TRIGGER" *)
HEADER_ROW == <<SOURCE_HEADER, DEST_HEADER, TRIGGER_HEADER>>
INVALID_ROW_MSG == "Invalid row"
EVENT_PREFIX == <<95>> (* "_" *)
EVENT_STR == <<69, 86, 84>> (* "EVT" *)
TIMED_TRANSITION_PREFIX == <<95, 95>> (* "__" *)

(***************************************************************************)
(* int(str) and the formatting of an int, as Python computes them.         *)
(***************************************************************************)
\* the code points of the digit zero of every Unicode decimal digit block
\* (category Nd): the digits 0..9 of a block are consecutive
DigitZeros ==
  { 48, 1632, 1776, 1984, 2406, 2534, 2662, 2790, 2918, 3046, 3174, 3302,
    3430, 3558, 3664, 3792, 3872, 4160, 4240, 6112, 6160, 6470, 6608, 6784,
    6800, 6992, 7088, 7232, 7248, 42528, 43216, 43264, 43472, 43504, 43600,
    44016, 65296, 66720, 68912, 69734, 69872, 69942, 70096, 70384, 70736,
    70864, 71248, 71360, 71472, 71904, 72016, 72784, 73040, 73120, 92768,
    92864, 93008, 120782, 120792, 120802, 120812, 120822, 123200, 123632,
    125264, 130032 }

\* the characters int() reads as a decimal digit
Digits == UNION {z..(z + 9) : z \in DigitZeros}

IsDigit(c) == \E z \in DigitZeros : z <= c /\ c <= z + 9

DigitValue(c) == c - (CHOOSE z \in DigitZeros : z <= c /\ c <= z + 9)

\* the characters int() skips around the number: \t \n \v \f \r, space,
\* U+0085, U+00A0 and the Unicode spaces
Whitespace ==
  {9, 10, 11, 12, 13, 32, 133, 160, 5760} \cup (8192..8202)
    \cup {8232, 8233, 8239, 8287, 12288}

\* the indices of the characters of s that are not whitespace
NonSpace(s) == {i \in 1..Len(s) : s[i] \notin Whitespace}

MinOf(N) == CHOOSE i \in N : \A j \in N : i <= j
MaxOf(N) == CHOOSE i \in N : \A j \in N : j <= i

\* s from its first to its last character of N
Between(s, N) == IF N = {} THEN <<>> ELSE SubSeq(s, MinOf(N), MaxOf(N))

\* s without its leading and trailing whitespace
Strip(s) == Between(s, NonSpace(s))

\* sys.int_info.default_max_str_digits: int() of more digits is a ValueError
INT_MAX_STR_DIGITS == 4300

\* the digits of a decimal literal: digits, with single underscores between
\* digits, and no more digits than the limit
IsDecimalBody(b) ==
  /\ Len(b) > 0
  /\ IsDigit(b[1])
  /\ IsDigit(b[Len(b)])
  /\ \A i \in 1..Len(b) :
       /\ IsDigit(b[i]) \/ b[i] = 95
       /\ (b[i] = 95 /\ i < Len(b)) => b[i + 1] # 95
  /\ Len(SelectSeq(b, IsDigit)) <= INT_MAX_STR_DIGITS

\* the values of the digits d
DigitValues(d) == [i \in 1..Len(d) |-> DigitValue(d[i])]

\* the digit values v from the first of N on: without leading zeros
FromFirst(v, N) == IF N = {} THEN <<0>> ELSE SubSeq(v, MinOf(N), Len(v))

WithoutLeadingZeros(v) == FromFirst(v, {i \in 1..Len(v) : v[i] # 0})

\* the magnitude of the body: its digit values, without the underscores
\* and the leading zeros
DecimalValue(b) == WithoutLeadingZeros(DigitValues(SelectSeq(b, IsDigit)))

HasSign(s) == Len(s) > 0 /\ s[1] \in {43, 45}

\* s without its sign
Unsigned(s) == IF HasSign(s) THEN Tail(s) ELSE s

\* the int of a sign and a magnitude: minus zero is zero
Signed(minus, digits) ==
  [negative |-> minus /\ digits # <<0>>, digits |-> digits]

\* the int of the stripped text t whose part after the sign is body
IntOf(t, body) ==
  IF IsDecimalBody(body)
  THEN [ok |-> TRUE,
        value |-> Signed(HasSign(t) /\ t[1] = 45, DecimalValue(body))]
  ELSE [ok |-> FALSE, value |-> Signed(FALSE, <<0>>)]

IntOfStripped(t) == IntOf(t, Unsigned(t))

\* int(s): surrounding whitespace, an optional sign, a decimal body;
\* anything else is a ValueError (ok = FALSE)
PyInt(s) == IntOfStripped(Strip(s))

\* f'{n}' of an int
IntToStr(n) ==
  (IF n.negative THEN <<45>> (* "-" *) ELSE <<>>)
    \o [i \in 1..Len(n.digits) |-> 48 + n.digits[i]]

\* f'(after {seconds} sec.)'
AfterSec(seconds) ==
  <<40, 97, 102, 116, 101, 114, 32>> (* "(after " *) \o IntToStr(seconds)
    \o <<32, 115, 101, 99, 46, 41>> (* " sec.)" *)

\* f'{self._EVENT_STR}_{trigger[1:]}'
EventName(trigger) == EVENT_STR \o <<95>> (* "_" *) \o Drop(trigger, 1)

(***************************************************************************)
(* Exceptions.  An STTPError is the text                                   *)
(*   f'{label}: {row}. {message}{value}'                                   *)
(* kept as its parts: row is the list interpolated into the text.          *)
(***************************************************************************)
STTPError(label, row, message, value) ==
  [type |-> "STTPError", label |-> label, row |-> row,
   message |-> message, value |-> value]

ParseErrorNoRow(row, message, value) ==
  STTPError(INVALID_ROW_MSG, <<>>, message, value)

\* STTP._parse_error
ParseError(row, message, value) ==
  STTPError(INVALID_ROW_MSG, row, message, value)

HeaderError ==
  STTPError("Invalid header format", HEADER_ROW, "must be", <<>>)

IndexError(row) ==
  [type |-> "IndexError", label |-> "list index out of range", row |-> row,
   message |-> "", value |-> <<>>]

StopIteration ==
  [type |-> "StopIteration", label |-> "", row |-> <<>>,
   message |-> "", value |-> <<>>]

UNDEFINED_SOURCE_MSG == "Undefined previous source state."
UNDEFINED_DEST_MSG == "Undefined destination state."
TIMED_MSG ==
  "A '__' prefix indicates a timed transition and must befollowed by a number (seconds). Invalid value: "

(***************************************************************************)
(* STTP._parse: the body of the loop over the data rows.                   *)
(***************************************************************************)
\* "if not source and previous_source is None"
SourceUndefined(source, previous_source) ==
  ~Truthy(source) /\ previous_source = None

ResolveSourceKeepBlank(source, previous_source) == source

\* the source of the row: "elif not source: source = previous_source"
ResolveSource(source, previous_source) ==
  IF ~Truthy(source) THEN previous_source[1] ELSE source

CarrySourceFirst(source, previous_source) ==
  IF previous_source # None THEN previous_source ELSE Some(source)

\* previous_source after the row: "else: previous_source = source"
CarrySource(source, previous_source) ==
  IF ~Truthy(source) THEN previous_source ELSE Some(source)

DestUndefinedNever(dest) == FALSE

\* "if not dest"
DestUndefined(dest) == ~Truthy(dest)

\* "if not trigger: trigger = f'{self._EVENT_PREFIX}{dest}'"
DefaultTrigger(trigger, dest) ==
  IF ~Truthy(trigger) THEN EVENT_PREFIX \o dest ELSE trigger

IsTimedTransitionOnePrefix(trigger) == Take(trigger, 1) = EVENT_PREFIX

\* "if trigger[:2] == self._TIMED_TRANSITION_PREFIX"
IsTimedTransition(trigger) == Take(trigger, 2) = TIMED_TRANSITION_PREFIX

\* "elif trigger[0] == self._EVENT_PREFIX"
IsEvent(trigger) == <<trigger[1]>> = EVENT_PREFIX

\* OrderedDict({trigger, source, dest})
Transition(trigger, source, dest) ==
  [trigger |-> trigger, source |-> source, dest |-> dest]

\* "try: seconds = int(trigger_suffix) except ValueError: ..."
TimedTrigger(row, trigger_suffix, seconds) ==
  IF seconds.ok
  THEN Returned(AfterSec(seconds.value))
  ELSE Raised(ParseError(row, TIMED_MSG, trigger_suffix))

\* the trigger of the transition, or the error of a timed trigger
NormalizeTrigger(row, trigger) ==
  IF IsTimedTransition(trigger)
  THEN TimedTrigger(row, Drop(trigger, 2), PyInt(Drop(trigger, 2)))
  ELSE IF IsEvent(trigger) THEN Returned(EventName(trigger))
  ELSE Returned(trigger)

\* one iteration of "for row in stt_csv": the transition of the row and the
\* previous_source it leaves, or the exception it raises
NormalizeRow(row, previous_source) ==
  IF Len(row) < 3 THEN Raised(IndexError(row))
  ELSE
    LET source == row[1]
        dest == row[2]
        trigger == row[3]
    IN  IF SourceUndefined(source, previous_source)
        THEN Raised(ParseError(row, UNDEFINED_SOURCE_MSG, <<>>))
        ELSE IF DestUndefined(dest)
        THEN Raised(ParseError(row, UNDEFINED_DEST_MSG, <<>>))
        ELSE
          LET t == NormalizeTrigger(row, DefaultTrigger(trigger, dest))
          IN  IF t.status = "raised" THEN t
              ELSE [status |-> "ok",
                    value |-> Transition(t.value,
                                         ResolveSource(source, previous_source),
                                         dest),
                    previous_source |-> CarrySource(source, previous_source)]

RECURSIVE ParseRowsBestEffort(_, _, _, _)
ParseRowsBestEffort(rows, i, previous_source, acc) ==
  IF i > Len(rows) THEN Returned(acc)
  ELSE LET r == NormalizeRow(rows[i], previous_source)
       IN  IF r.status = "raised" THEN Returned(acc)
           ELSE ParseRowsBestEffort(rows, i + 1, r.previous_source,
                                    Append(acc, r.value))

RECURSIVE ParseRowsMerging(_, _, _, _)
ParseRowsMerging(rows, i, previous_source, acc) ==
  IF i > Len(rows) THEN Returned(acc)
  ELSE LET r == NormalizeRow(rows[i], previous_source)
       IN  IF r.status = "raised" THEN r
           ELSE ParseRowsMerging(
                  rows, i + 1, r.previous_source,
                  IF \E k \in 1..Len(acc) :
                       acc[k].source = r.value.source /\ acc[k].dest = r.value.dest
                  THEN acc ELSE Append(acc, r.value))

\* "for row in stt_csv: ... stt.append(transition)", from data row i on
RECURSIVE ParseRows(_, _, _, _)
ParseRows(rows, i, previous_source, acc) ==
  IF i > Len(rows) THEN Returned(acc)
  ELSE LET r == NormalizeRow(rows[i], previous_source)
       IN  IF r.status = "raised" THEN r
           ELSE ParseRows(rows, i + 1, r.previous_source, Append(acc, r.value))

TRANSITION_KEYS == {"source", "dest", "trigger"}

AssertionError ==
  [type |-> "AssertionError", label |-> "", row |-> <<>>,
   message |-> "", value |-> <<>>]

\* STTP._validate_stt: every transition has at least the three keys (the
\* isinstance assertions hold of any sequence of records)
ValidateStt(s) ==
  \A i \in 1..Len(s) : TRANSITION_KEYS \subseteq DOMAIN s[i]

\* "self._validate_stt(stt); return stt"
Validated(r) ==
  IF r.status = "ok" /\ ~ValidateStt(r.value) THEN Raised(AssertionError) ELSE r

\* STTP._parse on the rows of the csv file
Parse(f) ==
  IF Len(f) = 0 THEN Raised(StopIteration)
  ELSE IF f[1] # HEADER_ROW THEN Raised(HeaderError)
  ELSE Validated(ParseRows(Tail(f), 1, None, <<>>))

(***************************************************************************)
(* The projections of the parsed table.                                    *)
(***************************************************************************)
EmptyDict == [k \in {} |-> <<>>]

\* d[key] = value on a dict
DictSet(d, key, value) ==
  [k \in DOMAIN d \cup {key} |-> IF k = key THEN value ELSE d[k]]

RECURSIVE DictLoopFirstWins(_, _, _)
DictLoopFirstWins(s, i, d) ==
  IF i > Len(s) THEN d
  ELSE LET t == s[i]
           inner == IF t.source \in DOMAIN d THEN d[t.source] ELSE EmptyDict
       IN  DictLoopFirstWins(
             s, i + 1,
             DictSet(d, t.source,
                     IF t.dest \in DOMAIN inner THEN inner
                     ELSE DictSet(inner, t.dest, t.trigger)))

\* "for t in self._stt: d.setdefault(t['source'], {})[t['dest']] = t['trigger']"
RECURSIVE DictLoop(_, _, _)
DictLoop(s, i, d) ==
  IF i > Len(s) THEN d
  ELSE LET t == s[i]
           inner == IF t.source \in DOMAIN d THEN d[t.source] ELSE EmptyDict
       IN  DictLoop(s, i + 1,
                    DictSet(d, t.source, DictSet(inner, t.dest, t.trigger)))

HexDigit(d) == IF d < 10 THEN 48 + d ELSE 87 + d

\* \uXXXX, in lower case hexadecimal
UEscape(c) ==
  <<92, 117, HexDigit(c \div 4096), HexDigit((c \div 256) % 16),
    HexDigit((c \div 16) % 16), HexDigit(c % 16)>>

\* one character of a JSON string literal (ensure_ascii): quote and
\* backslash are escaped, \n \r \t \b \f have their short escape, the
\* printable ASCII characters are kept, any other character is \uXXXX, as a
\* surrogate pair above U+FFFF
JsonEscapeChar(c) ==
  CASE c = 34 -> <<92, 34>>
    [] c = 92 -> <<92, 92>>
    [] c = 10 -> <<92, 110>>
    [] c = 13 -> <<92, 114>>
    [] c = 9 -> <<92, 116>>
    [] c = 8 -> <<92, 98>>
    [] c = 12 -> <<92, 102>>
    [] OTHER ->
         IF 32 <= c /\ c <= 126 THEN <<c>>
         ELSE IF c < 65536 THEN UEscape(c)
         ELSE UEscape(55296 + ((c - 65536) \div 1024))
                \o UEscape(56320 + ((c - 65536) % 1024))

\* the characters of a JSON string literal
RECURSIVE JsonEscape(_)
JsonEscape(s) ==
  IF Len(s) = 0 THEN <<>>
  ELSE IF Len(s) = 1 THEN JsonEscapeChar(s[1])
  ELSE JsonEscape(SubSeq(s, 1, Len(s) \div 2))
         \o JsonEscape(SubSeq(s, Len(s) \div 2 + 1, Len(s)))

JsonString(s) == <<34>> (* "\"" *) \o JsonEscape(s) \o <<34>> (* "\"" *)

JsonLine(indent, text) == [indent |-> indent, text |-> text]

\* the lines of one transition object, keys in the order of the OrderedDict
JsonTransition(t, last) ==
  << JsonLine(8, <<123>> (* "{" *)),
     JsonLine(12, <<34, 116, 114, 105, 103, 103, 101, 114, 34, 58, 32>> (* "\"trigger\": " *)
                    \o JsonString(t.trigger) \o <<44>> (* "," *)),
     JsonLine(12, <<34, 115, 111, 117, 114, 99, 101, 34, 58, 32>> (* "\"source\": " *)
                    \o JsonString(t.source) \o <<44>> (* "," *)),
     JsonLine(12, <<34, 100, 101, 115, 116, 34, 58, 32>> (* "\"dest\": " *)
                    \o JsonString(t.dest)),
     JsonLine(8, IF last THEN <<125>> (* "}" *) ELSE <<125, 44>> (* "}," *)) >>

RECURSIVE JsonTransitions(_, _)
JsonTransitions(s, i) ==
  IF i > Len(s) THEN <<>>
  ELSE JsonTransition(s[i], i = Len(s)) \o JsonTransitions(s, i + 1)

TRANSITIONS_KEY ==
  <<34, 116, 114, 97, 110, 115, 105, 116, 105, 111, 110, 115, 34, 58, 32>> (* "\"transitions\": " *)

\* json.dumps({'transitions': stt}, indent=4), as its lines
JsonDumps(s) ==
  IF Len(s) = 0
  THEN << JsonLine(0, <<123>> (* "{" *)),
          JsonLine(4, TRANSITIONS_KEY \o <<91, 93>> (* "[]" *)),
          JsonLine(0, <<125>> (* "}" *)) >>
  ELSE << JsonLine(0, <<123>> (* "{" *)), JsonLine(4, TRANSITIONS_KEY \o <<91>> (* "[" *)) >>
         \o JsonTransitions(s, 1)
         \o << JsonLine(4, <<93>> (* "]" *)), JsonLine(0, <<125>> (* "}" *)) >>

\* the body of the graphviz.Digraph: two node statements and one edge
\* statement per transition
RECURSIVE DotBody(_, _)
DotBody(s, i) ==
  IF i > Len(s) THEN <<>>
  ELSE << [stmt |-> "node", name |-> s[i].source, head |-> <<>>, label |-> <<>>],
          [stmt |-> "node", name |-> s[i].dest, head |-> <<>>, label |-> <<>>],
          [stmt |-> "edge", name |-> s[i].source, head |-> s[i].dest,
           label |-> s[i].trigger] >>
         \o DotBody(s, i + 1)

\* str.strip(chars): the characters of chars are removed from both ends
RECURSIVE LStripChars(_, _)
LStripChars(s, chars) ==
  IF Len(s) > 0 /\ s[1] \in chars THEN LStripChars(Tail(s), chars) ELSE s

RECURSIVE RStripChars(_, _)
RStripChars(s, chars) ==
  IF Len(s) > 0 /\ s[Len(s)] \in chars
  THEN RStripChars(SubSeq(s, 1, Len(s) - 1), chars)
  ELSE s

StripChars(s, chars) == RStripChars(LStripChars(s, chars), chars)

(***************************************************************************)
(* The cached properties _stt, _json and _dot.                             *)
(***************************************************************************)
\* "if self.__x is None"
NeedsCompute(cache) == cache = None

\* the value of self._stt, or the exception of _parse
SttResult == IF NeedsCompute(stt) THEN Parse(file) ELSE Returned(stt[1])

\* self.__stt after an evaluation of self._stt
SttAfter ==
  IF NeedsCompute(stt) /\ SttResult.status = "ok"
  THEN Some(SttResult.value)
  ELSE stt

\* the calls of _parse an evaluation of self._stt makes
SttParses == IF NeedsCompute(stt) THEN 1 ELSE 0

\* the value of self._json, or the exception of _parse
JsonResult ==
  IF NeedsCompute(json)
  THEN IF SttResult.status = "ok"
       THEN Returned(JsonDumps(SttResult.value))
       ELSE SttResult
  ELSE Returned(json[1])

\* the value of self._dot, or the exception of _parse
DotResult ==
  IF NeedsCompute(dot)
  THEN IF SttResult.status = "ok"
       THEN Returned(DotBody(SttResult.value, 1))
       ELSE SttResult
  ELSE Returned(dot[1])

Count(key, n) == [computed EXCEPT ![key] = @ + n]

(***************************************************************************)
(* The csv files the instance is constructed on.                           *)
(***************************************************************************)
RECURSIVE StringsUpTo(_, _)
StringsUpTo(chars, n) ==
  IF n = 0 THEN {<<>>}
  ELSE LET S == StringsUpTo(chars, n - 1)
       IN  S \cup {Append(x, c) : x \in S, c \in chars}

RECURSIVE SeqsUpTo(_, _)
SeqsUpTo(S, n) ==
  IF n = 0 THEN {<<>>}
  ELSE LET T == SeqsUpTo(S, n - 1)
       IN  T \cup {Append(x, e) : x \in T, e \in S}

StateA == <<65>> (* "A" *)
StateB == <<66>> (* "B" *)
PlainX == <<120>> (* "x" *)

\* every dest and trigger cell over a small alphabet, and triggers with the
\* signs, blanks, underscores, leading zeros and Unicode digits and spaces
\* int() accepts or rejects
DestCells == StringsUpTo({95, 53, 98}, MaxDestLen)
TriggerCells ==
  StringsUpTo({95, 53, 97}, MaxTriggerLen) \cup
    { <<103, 111>> (* "go" *), <<95, 102, 111, 111>> (* "_foo" *), <<95, 95, 97, 98, 99>> (* "__abc" *),
      <<95, 95, 49, 48>> (* "__10" *), <<95, 95, 48, 53>> (* "__05" *), <<95, 95, 45, 53>> (* "__-5" *),
      <<95, 95, 43, 53>> (* "__+5" *), <<95, 95, 45>> (* "__-" *), <<95, 95, 32, 53, 32>> (* "__ 5 " *),
      <<95, 95, 53, 95, 53>> (* "__5_5" *), <<95, 95, 53, 95>> (* "__5_" *), <<95, 95, 32>> (* "__ " *),
      <<95, 95, 53, 32, 53>> (* "__5 5" *), <<95, 95, 45, 48>> (* "__-0" *),
      <<95, 95, 1637>> (* "__" and ARABIC-INDIC DIGIT FIVE *),
      <<95, 95, 65297, 48>> (* "__", FULLWIDTH DIGIT ONE, "0" *),
      <<95, 95, 11, 53, 160>> (* "__", vertical tab, "5", NO-BREAK SPACE *),
      <<95, 95, 28, 53>> (* "__", U+001C, "5": not a space of int() *) }

\* rows with fewer or more than three cells
OddRows ==
  { <<>>, <<StateA>>, <<StateA, <<>>>>, <<StateA, StateB>>, <<<<>>, <<>>>>,
    <<StateA, StateB, PlainX, PlainX>>, <<StateA, <<>>, PlainX, PlainX>> }

SingleRows ==
  {<<s, d, t>> : s \in {<<>>, StateA}, d \in DestCells, t \in TriggerCells}
    \cup OddRows

\* a row that establishes the previous source B
EstablishingRow == <<StateB, StateB, PlainX>>

\* one data row, alone or after an established source
RowFiles ==
  {<<HEADER_ROW>> \o pre \o <<r>> :
     pre \in {<<>>, <<EstablishingRow>>}, r \in SingleRows}

TableRows ==
  {<<s, d, t>> : s \in {<<>>, StateA, StateB}, d \in {<<>>, StateB},
                 t \in {<<>>, PlainX}}

TableFiles == {<<HEADER_ROW>> \o rows : rows \in SeqsUpTo(TableRows, MaxRows)}

BadHeaders ==
  { <<>>, <<SOURCE_HEADER, DEST_HEADER>>,
    <<DEST_HEADER, SOURCE_HEADER, TRIGGER_HEADER>>,
    <<SOURCE_HEADER, DEST_HEADER, TRIGGER_HEADER, <<>>>>,
    <<<<115, 111, 117, 114, 99, 101>> (* "source" *), <<100, 101, 115, 116>> (* "dest" *),
      <<116, 114, 105, 103, 103, 101, 114>> (* "trigger" *)>>,
    <<StateA, StateB, PlainX>> }

\* the empty file, and files whose first row is not the header row
HeaderFiles ==
  {<<>>} \cup
    {<<h>> \o rows : h \in BadHeaders,
                     rows \in {<<>>, <<EstablishingRow>>, <<<<StateA, <<>>, PlainX>>>>}}

Idle == <<73, 100, 108, 101>> (* "Idle" *)
Running == <<82, 117, 110, 110, 105, 110, 103>> (* "Running" *)

\* SOURCE,DEST,TRIGGER / Idle,Running,_start / ,Running,__10 / Running,Idle,stop
ExampleFile ==
  << HEADER_ROW,
     <<Idle, Running, <<95, 115, 116, 97, 114, 116>> (* "_start" *)>>,
     <<<<>>, Running, <<95, 95, 49, 48>> (* "__10" *)>>,
     <<Running, Idle, <<115, 116, 111, 112>> (* "stop" *)>> >>

ParseFiles == RowFiles \cup TableFiles \cup HeaderFiles \cup {ExampleFile}

LifeRows ==
  {<<s, d, t>> : s \in {<<>>, StateA, StateB}, d \in {<<>>, StateA, StateB},
                 t \in {<<>>, PlainX}}

LifeFiles ==
  {<<HEADER_ROW>> \o rows : rows \in SeqsUpTo(LifeRows, MaxLifeRows)}
    \cup HeaderFiles \cup {ExampleFile}

Filenames == {<<103>> (* "g" *), <<102, 46, 112, 100, 102>> (* "f.pdf" *)}
PDF == <<112, 100, 102>> (* "pdf" *)

(***************************************************************************)
(* The instance.                                                           *)
(***************************************************************************)
NoCall == [op |-> "", status |-> "", value |-> <<>>]

Call(op, result) == [op |-> op, status |-> result.status, value |-> result.value]

\* STTP.__init__: nothing is parsed, the three caches are None
Constructed ==
  /\ stt = None
  /\ json = None
  /\ dot = None
  /\ out = NoCall
  /\ computed = [parse |-> 0, json |-> 0, dot |-> 0, dict |-> 0]
  /\ ncalls = 0

Init == file \in LifeFiles /\ Constructed

InitParse == file \in ParseFiles /\ Constructed

\* a call of STTP._parse
ParseFile ==
  /\ ncalls < MaxCalls
  /\ out' = Call("_parse", Parse(file))
  /\ computed' = Count("parse", 1)
  /\ ncalls' = ncalls + 1
  /\ UNCHANGED <<file, stt, json, dot>>

\* STTP.dictify
Dictify ==
  /\ ncalls < MaxCalls
  /\ LET r == SttResult
     IN  /\ out' = Call("dictify",
                        IF r.status = "ok"
                        THEN Returned(DictLoop(r.value, 1, EmptyDict))
                        ELSE r)
         /\ computed' = [computed EXCEPT
                           !.parse = @ + SttParses,
                           !.dict = @ + (IF r.status = "ok" THEN 1 ELSE 0)]
  /\ stt' = SttAfter
  /\ ncalls' = ncalls + 1
  /\ UNCHANGED <<file, json, dot>>

\* STTP.jsonify: print(self._json)
Jsonify ==
  /\ ncalls < MaxCalls
  /\ out' = Call("jsonify", JsonResult)
  /\ json' = IF NeedsCompute(json) /\ JsonResult.status = "ok"
             THEN Some(JsonResult.value) ELSE json
  /\ stt' = IF NeedsCompute(json) THEN SttAfter ELSE stt
  /\ computed' = [computed EXCEPT
                    !.parse = @ + (IF NeedsCompute(json) THEN SttParses ELSE 0),
                    !.json = @ + (IF NeedsCompute(json) /\ JsonResult.status = "ok"
                                  THEN 1 ELSE 0)]
  /\ ncalls' = ncalls + 1
  /\ UNCHANGED <<file, dot>>

\* the effect of an evaluation of self._dot on the instance
DotEffect ==
  /\ dot' = IF NeedsCompute(dot) /\ DotResult.status = "ok"
            THEN Some(DotResult.value) ELSE dot
  /\ stt' = IF NeedsCompute(dot) THEN SttAfter ELSE stt
  /\ computed' = [computed EXCEPT
                    !.parse = @ + (IF NeedsCompute(dot) THEN SttParses ELSE 0),
                    !.dot = @ + (IF NeedsCompute(dot) /\ DotResult.status = "ok"
                                 THEN 1 ELSE 0)]

\* STTP.dotify: print(self._dot.source)
Dotify ==
  /\ ncalls < MaxCalls
  /\ out' = Call("dotify",
                 IF DotResult.status = "ok"
                 THEN Returned([digraph |-> DotResult.value])
                 ELSE DotResult)
  /\ DotEffect
  /\ ncalls' = ncalls + 1
  /\ UNCHANGED <<file, json>>

\* STTP.visualize: self._dot.render(filename.strip(f'.{format}'), format=format)
Visualize ==
  /\ ncalls < MaxCalls
  /\ \E filename \in Filenames :
       out' = Call("visualize",
                   IF DotResult.status = "ok"
                   THEN Returned([render |-> StripChars(filename, {46} \cup {PDF[i] : i \in 1..Len(PDF)}),
                                  format |-> PDF,
                                  digraph |-> DotResult.value])
                   ELSE DotResult)
  /\ DotEffect
  /\ ncalls' = ncalls + 1
  /\ UNCHANGED <<file, json>>

Next == Dictify \/ Jsonify \/ Dotify \/ Visualize

Spec == Init /\ [][Next]_vars

NextParse == ParseFile

SpecParse == InitParse /\ [][NextParse]_vars

(***************************************************************************)
(* Vocabulary of the properties: the table as it is written in the file.   *)
(***************************************************************************)
ValidHeader == Len(file) > 0 /\ file[1] = HEADER_ROW

DataRows == Tail(file)

RawSource(i) == DataRows[i][1]
RawDest(i) == DataRows[i][2]
RawTrigger(i) == DataRows[i][3]

ThreeCells(i) == Len(DataRows[i]) >= 3

\* row i has a source cell, or a row before it has one
SourceKnown(i) ==
  \E k \in 1..i : Len(DataRows[k]) >= 1 /\ DataRows[k][1] # <<>>

StartsTimed(s) == Len(s) >= 2 /\ s[1] = 95 /\ s[2] = 95

\* the trigger the row is classified by: the cell, or "_" and the dest
WrittenTrigger(i) ==
  IF RawTrigger(i) = <<>> THEN <<95>> (* "_" *) \o RawDest(i) ELSE RawTrigger(i)

\* a row the table allows
GoodRow(i) ==
  /\ ThreeCells(i)
  /\ SourceKnown(i)
  /\ RawDest(i) # <<>>
  /\ StartsTimed(WrittenTrigger(i)) => PyInt(Drop(WrittenTrigger(i), 2)).ok

\* every row before row i is allowed: the parser gets to row i
Reached(i) == \A j \in 1..(i - 1) : GoodRow(j)

TableIsGood == ValidHeader /\ \A i \in 1..Len(DataRows) : GoodRow(i)

HasBadRow == ValidHeader /\ \E i \in 1..Len(DataRows) : ~GoodRow(i)

FirstBadRow == CHOOSE i \in 1..Len(DataRows) : Reached(i) /\ ~GoodRow(i)

ParseCalled == out.op = "_parse"
Parsed == out.op = "_parse" /\ out.status = "ok"

EVT(name) == <<69, 86, 84, 95>> (* "EVT_" *) \o name

RowError(i, message, value) ==
  [type |-> "STTPError", label |-> "Invalid row", row |-> DataRows[i],
   message |-> message, value |-> value]

(***************************************************************************)
(* C1: a row with an empty trigger cell, a dest and a known source becomes *)
(* a transition whose trigger is "EVT_" and the dest, whatever the dest    *)
(* (also one that begins with "_"), and never raises the timed-trigger     *)
(* error.                                                                  *)
(***************************************************************************)
C1_OmittedTriggerIsEvent ==
  (ParseCalled /\ ValidHeader) =>
    \A i \in 1..Len(DataRows) :
      (Reached(i) /\ ThreeCells(i) /\ SourceKnown(i) /\ RawDest(i) # <<>>
         /\ RawTrigger(i) = <<>>) =>
        /\ ~(out.status = "raised" /\ out.value.row = DataRows[i]
               /\ out.value.message = TIMED_MSG)
        /\ out.status = "ok" => out.value[i].trigger = EVT(RawDest(i))

(***************************************************************************)
(* C2 as stated: every row with an empty dest cell fails with "Undefined   *)
(* destination state.", also when its source cell is empty and no source   *)
(* has been established.                                                   *)
(***************************************************************************)
C2_EmptyDestAlwaysDestError ==
  (ParseCalled /\ ValidHeader) =>
    \A i \in 1..Len(DataRows) :
      (Reached(i) /\ ThreeCells(i) /\ RawDest(i) = <<>>) =>
        out = Call("_parse", Raised(RowError(i, "Undefined destination state.", <<>>)))

(***************************************************************************)
(* C2 amended: a row of three or more cells, reached by the parser, with   *)
(* an empty dest cell fails with                                           *)
(* "Undefined destination state." when its source is known (its cell is    *)
(* not empty, or a row before it has a source), whatever the trigger; when *)
(* the source cell is empty and no source has been established it fails    *)
(* with "Undefined previous source state.".                                *)
(***************************************************************************)
C2_EmptyDestFails ==
  (ParseCalled /\ ValidHeader) =>
    \A i \in 1..Len(DataRows) :
      (Reached(i) /\ ThreeCells(i) /\ RawDest(i) = <<>>) =>
        out = Call("_parse",
                   Raised(RowError(i,
                                   IF SourceKnown(i)
                                   THEN "Undefined destination state."
                                   ELSE "Undefined previous source state.",
                                   <<>>)))

\* a second row with empty source and dest cells and a timed trigger fails on the dest
C2_Witness ==
  /\ ParseCalled /\ ValidHeader /\ Len(DataRows) = 2
  /\ GoodRow(1) /\ ThreeCells(2)
  /\ RawSource(2) = <<>> /\ RawDest(2) = <<>> /\ StartsTimed(RawTrigger(2))
  /\ out.status = "raised"
  /\ out.value.message = "Undefined destination state."

(***************************************************************************)
(* C3: the trigger of a row with a non-empty trigger cell is decided by    *)
(* the cell alone: "__" and an integer n give "(after n sec.)"; "__" and   *)
(* anything else (also nothing) raise the timed-trigger error that names   *)
(* the suffix; otherwise "_" gives "EVT_" and the rest; any other cell is  *)
(* kept.                                                                   *)
(***************************************************************************)
C3_TriggerClassification ==
  (ParseCalled /\ ValidHeader) =>
    \A i \in 1..Len(DataRows) :
      (Reached(i) /\ ThreeCells(i) /\ SourceKnown(i) /\ RawDest(i) # <<>>
         /\ RawTrigger(i) # <<>>) =>
        LET t == RawTrigger(i)
            suffix == Drop(t, 2)
        IN  IF StartsTimed(t) /\ PyInt(suffix).ok
            THEN out.status = "ok" =>
                   out.value[i].trigger =
                     <<40, 97, 102, 116, 101, 114, 32>> (* "(after " *)
                       \o IntToStr(PyInt(suffix).value)
                       \o <<32, 115, 101, 99, 46, 41>> (* " sec.)" *)
            ELSE IF StartsTimed(t)
            THEN out = Call("_parse", Raised(RowError(i, TIMED_MSG, suffix)))
            ELSE IF t[1] = 95
            THEN out.status = "ok" => out.value[i].trigger = EVT(Tail(t))
            ELSE out.status = "ok" => out.value[i].trigger = t

\* "__-5" after an established source is "(after -5 sec.)"
C3_Witness ==
  /\ Parsed /\ ValidHeader /\ Len(DataRows) = 2
  /\ RawSource(2) = <<>>
  /\ RawTrigger(2) = <<95, 95, 45, 53>> (* "__-5" *)
  /\ out.value[2].trigger =
       <<40, 97, 102, 116, 101, 114, 32, 45, 53, 32, 115, 101, 99, 46, 41>> (* "(after -5 sec.)" *)

(***************************************************************************)
(* C4: in a parsed table a row with an empty source cell has the source    *)
(* cell of the nearest row before it whose source cell is not empty; a row *)
(* with a source cell keeps it.                                            *)
(***************************************************************************)
C4_SourceCarryOver ==
  Parsed =>
    \A i \in 1..Len(DataRows) :
      IF RawSource(i) # <<>>
      THEN out.value[i].source = RawSource(i)
      ELSE \E j \in 1..(i - 1) :
             /\ RawSource(j) # <<>>
             /\ \A k \in (j + 1)..(i - 1) : RawSource(k) = <<>>
             /\ out.value[i].source = RawSource(j)

\* two rows with different sources, then a row with an empty source cell
C4_Witness ==
  /\ Parsed /\ Len(DataRows) >= 3
  /\ RawSource(1) # <<>> /\ RawSource(2) # <<>> /\ RawSource(1) # RawSource(2)
  /\ RawSource(3) = <<>>
  /\ out.value[3].source = RawSource(2)

(***************************************************************************)
(* C5: a parsed table has one transition per data row, the i-th transition *)
(* made of the i-th row: its dest, its source cell when there is one, its  *)
(* trigger.                                                                *)
(***************************************************************************)
C5_OneTransitionPerRow ==
  Parsed =>
    /\ Len(out.value) = Len(DataRows)
    /\ \A i \in 1..Len(DataRows) :
         /\ out.value[i].dest = RawDest(i)
         /\ RawSource(i) # <<>> => out.value[i].source = RawSource(i)
         /\ (RawTrigger(i) # <<>> /\ RawTrigger(i)[1] # 95) =>
              out.value[i].trigger = RawTrigger(i)
         /\ (RawTrigger(i) = <<>> /\ RawDest(i)[1] # 95) =>
              out.value[i].trigger = EVT(RawDest(i))

\* two rows with the same source and dest are two transitions
C5_Witness ==
  /\ Parsed /\ Len(DataRows) >= 3
  /\ \E i, j \in 1..Len(DataRows) :
       /\ i < j
       /\ out.value[i].source = out.value[j].source
       /\ out.value[i].dest = out.value[j].dest
       /\ out.value[i].trigger # out.value[j].trigger

(***************************************************************************)
(* C6 as stated: every STTPError of _parse, the header format error        *)
(* included, carries the offending row and an explanation.                 *)
(***************************************************************************)
C6_EveryErrorCarriesRow ==
  (ParseCalled /\ out.status = "raised" /\ out.value.type = "STTPError") =>
    /\ out.value.message # ""
    /\ out.value.row = IF ValidHeader THEN DataRows[FirstBadRow] ELSE file[1]

(***************************************************************************)
(* C6 amended: the errors of a data row (missing source, missing           *)
(* destination, invalid timed trigger) carry the offending row and an      *)
(* explanation; the header format error carries an explanation and the     *)
(* required header row, not the offending row.                             *)
(***************************************************************************)
C6_RowErrorsCarryRow ==
  (ParseCalled /\ out.status = "raised" /\ out.value.type = "STTPError") =>
    IF ValidHeader
    THEN /\ out.value.label = "Invalid row"
         /\ out.value.row = DataRows[FirstBadRow]
         /\ out.value.message \in
              { "Undefined previous source state.",
                "Undefined destination state.",
                TIMED_MSG }
         /\ out.value.message = TIMED_MSG =>
              out.value.value = Drop(WrittenTrigger(FirstBadRow), 2)
    ELSE /\ out.value.label = "Invalid header format"
         /\ out.value.message = "must be"
         /\ out.value.row = HEADER_ROW
         /\ out.value.row # file[1]

\* the second data row is the offending one
C6_Witness ==
  /\ ParseCalled /\ ValidHeader /\ HasBadRow /\ FirstBadRow = 2
  /\ out.status = "raised" /\ out.value.type = "STTPError"
  /\ out.value.row = DataRows[2]
  /\ out.value.row # DataRows[1]

(***************************************************************************)
(* C8 as stated: the rows Idle,Running,_start / ,Running,__10 /            *)
(* Running,Idle,stop give (EVT_start, Idle, Running),                      *)
(* ((after 10 sec.), Running, Running), (stop, Running, Idle).             *)
(***************************************************************************)
C8_ExampleAsStated ==
  (ParseCalled /\ file = ExampleFile) =>
    /\ out.status = "ok"
    /\ out.value =
         << [trigger |-> <<69, 86, 84, 95, 115, 116, 97, 114, 116>> (* "EVT_start" *),
             source |-> Idle, dest |-> Running],
            [trigger |-> <<40, 97, 102, 116, 101, 114, 32, 49, 48, 32,
                           115, 101, 99, 46, 41>>,
             source |-> Running, dest |-> Running],
            [trigger |-> <<115, 116, 111, 112>> (* "stop" *),
             source |-> Running, dest |-> Idle] >>

(***************************************************************************)
(* C8 amended: the same rows give (EVT_start, Idle, Running),              *)
(* ((after 10 sec.), Idle, Running), (stop, Running, Idle): the second row *)
(* takes the source Idle of the first.                                     *)
(***************************************************************************)
C8_Example ==
  (ParseCalled /\ file = ExampleFile) =>
    /\ out.status = "ok"
    /\ out.value =
         << [trigger |-> <<69, 86, 84, 95, 115, 116, 97, 114, 116>> (* "EVT_start" *),
             source |-> Idle, dest |-> Running],
            [trigger |-> <<40, 97, 102, 116, 101, 114, 32, 49, 48, 32,
                           115, 101, 99, 46, 41>>,
             source |-> Idle, dest |-> Running],
            [trigger |-> <<115, 116, 111, 112>> (* "stop" *),
             source |-> Running, dest |-> Idle] >>

C8_Witness == ParseCalled /\ file = ExampleFile /\ Len(out.value) = 3

(***************************************************************************)
(* C7: dictify returns source -> (dest -> trigger) with, for every pair of *)
(* the transition sequence, the trigger of the last transition of that     *)
(* pair, and with no entry for any other pair.                             *)
(***************************************************************************)
C7_DictifyLastWins ==
  (out.op = "dictify" /\ out.status = "ok") =>
    LET s == stt[1]
        d == out.value
        last(src, dst) ==
          CHOOSE i \in 1..Len(s) :
            /\ s[i].source = src /\ s[i].dest = dst
            /\ \A j \in (i + 1)..Len(s) : ~(s[j].source = src /\ s[j].dest = dst)
    IN  /\ DOMAIN d = {s[i].source : i \in 1..Len(s)}
        /\ \A src \in DOMAIN d :
             /\ DOMAIN d[src] = {s[i].dest : i \in {k \in 1..Len(s) : s[k].source = src}}
             /\ \A dst \in DOMAIN d[src] : d[src][dst] = s[last(src, dst)].trigger

\* rows (A,B,x) then (A,B,) give A -> B = EVT_B
C7_Witness ==
  /\ out.op = "dictify" /\ out.status = "ok"
  /\ Len(stt[1]) = 2
  /\ stt[1][1] = [trigger |-> PlainX, source |-> StateA, dest |-> StateB]
  /\ stt[1][2] = [trigger |-> EVT(StateB), source |-> StateA, dest |-> StateB]
  /\ out.value[StateA][StateB] = EVT(StateB)

(***************************************************************************)
(* C9: when a data row is not allowed, every accessor raises, and the      *)
(* cached table, the cached structured export and the cached graph stay    *)
(* unset: no transition of the rows before the failing one is seen.        *)
(***************************************************************************)
C9_FailureLeavesNothing ==
  HasBadRow =>
    /\ stt = None /\ json = None /\ dot = None
    /\ computed.json = 0 /\ computed.dot = 0 /\ computed.dict = 0
    /\ ncalls > 0 =>
         /\ out.status = "raised"
         /\ out.value.row = DataRows[FirstBadRow]

\* the last of two rows fails, after two accessors were called
C9_Witness ==
  /\ HasBadRow /\ Len(DataRows) = 2 /\ FirstBadRow = 2
  /\ ncalls >= 2 /\ computed.parse >= 2
  /\ out.op = "jsonify" /\ out.status = "raised"

(***************************************************************************)
(* C10: for a table that parses, the table is parsed once, on the first    *)
(* access and not at construction, and each of the adjacency mapping, the  *)
(* structured export and the graph is computed at most once.  dictify      *)
(* builds the adjacency mapping again on every call.                       *)
(***************************************************************************)
C10_EverythingComputedOnce ==
  TableIsGood =>
    /\ computed.parse = (IF ncalls = 0 THEN 0 ELSE 1)
    /\ computed.json <= 1
    /\ computed.dot <= 1
    /\ computed.dict <= 1

====
